---- MODULE Spec2Model ----
(***************************************************************************)
(* Model of pyomo/util/infeasible.py: the four diagnostic report functions *)
(* log_infeasible_constraints, log_infeasible_bounds, log_close_to_bounds  *)
(* and log_active_constraints, each a read-only traversal of a model `m`   *)
(* that passes records to a logger.                                        *)
(*                                                                         *)
(* Numbers are integers.  An optional number (a variable's value, a bound, *)
(* the result of value(expr, exception=False)) is a sequence of length at  *)
(* most one: None is << >> and the number n is << n >>.                    *)
(***************************************************************************)
EXTENDS Integers, Sequences, FiniteSets

\* ------------------------------------------------------------------ bounds
MaxVal == 3
MaxTol == 1
MaxCVal == 2
MaxCBound == 2

\* ------------------------------------------------------- optional numbers
None == << >>

Some(n) == << n >>

Opt(S) == {None} \cup {Some(n) : n \in S}

fabs(n) == IF n < 0 THEN -n ELSE n

\* ---------------------------------------------------------------- state
VARIABLES
    m,               \* the model: [Var |-> sequence of variables, Constraint |-> sequence of constraints]
    op,              \* the report function of the last call ("none" before any call)
    tol,             \* the tol argument of the last call
    log_expression,  \* the log_expression argument of the last call
    log_variables,   \* the log_variables argument of the last call
    log,             \* the records the last call passed to the logger, in order
    compared         \* the bound comparisons the last call evaluated, in order

vars == << m, op, tol, log_expression, log_variables, log, compared >>

\* ---------------------------------------------- host framework accessors
\* var.has_lb() / var.has_ub() / constr.has_lb() / constr.has_ub()
has_lb(x) == IF "lb" \in DOMAIN x THEN x.lb # None ELSE x.lower # None

has_ub(x) == IF "ub" \in DOMAIN x THEN x.ub # None ELSE x.upper # None

\* value(expr, exception=False) of a body that is the sum of the variables
\* it references: None as soon as one of them has no value
RECURSIVE SumValues(_, _)
SumValues(Var, body) ==
    IF body = << >> THEN 0
    ELSE Var[Head(body)].value[1] + SumValues(Var, Tail(body))

value(Var, body) ==
    IF \E i \in 1..Len(body) : Var[body[i]].value = None
    THEN None
    ELSE Some(SumValues(Var, body))

\* identify_variables(constr.body, include_fixed=True), formatted with
\* vars_template: one (name, value) pair per referenced variable
identify_variables(Var, body) ==
    [i \in 1..Len(body) |-> [name |-> Var[body[i]].name, value |-> Var[body[i]].value]]

\* m.component_data_objects(ctype=Constraint, active=True, descend_into=True)
RECURSIVE ActiveOnly(_)
ActiveOnly(cs) ==
    IF cs = << >> THEN << >>
    ELSE (IF Head(cs).active THEN << Head(cs) >> ELSE << >>) \o ActiveOnly(Tail(cs))

active_constraints(mm) == ActiveOnly(mm.Constraint)

\* ------------------------------------------- log_infeasible_constraints
\* log_template.format(**output_dict): the record of one violation.  `expr`
\* holds the two expression texts when log_expression is set, `var_printout`
\* the variable printout when log_variables is set.
ConstrLine(Var, constr, lhs, operation, rhs, lhs_expr, rhs_expr, le, lv) ==
    [ level        |-> "info",
      msg          |-> "CONSTR",
      name         |-> constr.name,
      lhs_value    |-> lhs,
      operation    |-> operation,
      rhs_value    |-> rhs,
      expr         |-> IF le THEN << lhs_expr, rhs_expr >> ELSE << >>,
      var_printout |-> IF lv THEN << identify_variables(Var, constr.body) >> ELSE << >> ]

\* 'CONSTR {name}: missing variable value.'
MissingLine(Var, constr, lv) ==
    [ level        |-> "info",
      msg          |-> "CONSTR missing variable value",
      name         |-> constr.name,
      var_printout |-> IF lv THEN << identify_variables(Var, constr.body) >> ELSE << >> ]

\* one comparison of a constraint's body against one of its bounds
Cmp(constr, against) == [name |-> constr.name, against |-> against]

\* variant: the equality test with > in place of >=
EqualityViolated_strict(constr, bv, t) == fabs(constr.lower[1] - bv) > t

\* line 50, right operand of `and`: fabs(value(constr.lower - constr.body)) >= tol
EqualityViolated(constr, bv, t) == fabs(constr.lower[1] - bv) >= t

\* line 64, right operand of `and`: value(constr.lower - constr.body) >= tol
LowerViolated(constr, bv, t) == constr.lower[1] - bv >= t

\* variant: the upper-bound test on the distance, as in the equality test
UpperViolated_fabs(constr, bv, t) == fabs(bv - constr.upper[1]) >= t

\* line 76, right operand of `and`: value(constr.body - constr.upper) >= tol
UpperViolated(constr, bv, t) == bv - constr.upper[1] >= t

\* lines 40-48: the body has no value
MissingStep(Var, constr, lv) ==
    [log |-> << MissingLine(Var, constr, lv) >>, compared |-> << >>]

\* lines 50-62: the equality test reported a violation; `continue`
EqualityStep(Var, constr, bv, le, lv) ==
    [log |-> << ConstrLine(Var, constr, bv, "=/=", constr.lower[1], "body", "lower", le, lv) >>,
     compared |-> << Cmp(constr, "equality") >>]

\* lines 64-75: the lower-bound check
LowerStep(Var, constr, bv, t, le, lv) ==
    IF ~has_lb(constr) THEN [log |-> << >>, compared |-> << >>]
    ELSE [log |-> IF LowerViolated(constr, bv, t)
                  THEN << ConstrLine(Var, constr, constr.lower[1], "</=", bv, "lower", "body", le, lv) >>
                  ELSE << >>,
          compared |-> << Cmp(constr, "lower") >>]

\* lines 76-87: the upper-bound check
UpperStep(Var, constr, bv, t, le, lv) ==
    IF ~has_ub(constr) THEN [log |-> << >>, compared |-> << >>]
    ELSE [log |-> IF UpperViolated(constr, bv, t)
                  THEN << ConstrLine(Var, constr, bv, "</=", constr.upper[1], "body", "upper", le, lv) >>
                  ELSE << >>,
          compared |-> << Cmp(constr, "upper") >>]

Join(a, b) == [log |-> a.log \o b.log, compared |-> a.compared \o b.compared]

\* variant: the upper-bound check as an elif of the lower-bound check
BoundsSteps_elif(Var, constr, bv, t, le, lv) ==
    IF has_lb(constr) /\ LowerViolated(constr, bv, t)
    THEN LowerStep(Var, constr, bv, t, le, lv)
    ELSE Join(LowerStep(Var, constr, bv, t, le, lv), UpperStep(Var, constr, bv, t, le, lv))

\* lines 63-87: reached when the equality branch did not `continue`
BoundsSteps(Var, constr, bv, t, le, lv) ==
    Join(LowerStep(Var, constr, bv, t, le, lv), UpperStep(Var, constr, bv, t, le, lv))

\* lines 39-87: the loop body for one active constraint
InfeasibleConstraintStep(Var, constr, t, le, lv) ==
    LET constr_body_value == value(Var, constr.body) IN
    IF constr_body_value = None
    THEN MissingStep(Var, constr, lv)
    ELSE LET bv == constr_body_value[1] IN
         IF constr.equality /\ EqualityViolated(constr, bv, t)
         THEN EqualityStep(Var, constr, bv, le, lv)
         ELSE Join([log |-> << >>,
                    compared |-> IF constr.equality THEN << Cmp(constr, "equality") >> ELSE << >>],
                   BoundsSteps(Var, constr, bv, t, le, lv))

\* variant: the loop ends at the first constraint whose body has no value
RECURSIVE InfeasibleConstraintLoop_break(_, _, _, _, _)
InfeasibleConstraintLoop_break(Var, cs, t, le, lv) ==
    IF cs = << >> THEN [log |-> << >>, compared |-> << >>]
    ELSE IF value(Var, Head(cs).body) = None
    THEN InfeasibleConstraintStep(Var, Head(cs), t, le, lv)
    ELSE Join(InfeasibleConstraintStep(Var, Head(cs), t, le, lv),
              InfeasibleConstraintLoop_break(Var, Tail(cs), t, le, lv))

\* lines 37-87: the loop over the active constraints
RECURSIVE InfeasibleConstraintLoop(_, _, _, _, _)
InfeasibleConstraintLoop(Var, cs, t, le, lv) ==
    IF cs = << >> THEN [log |-> << >>, compared |-> << >>]
    ELSE Join(InfeasibleConstraintStep(Var, Head(cs), t, le, lv),
              InfeasibleConstraintLoop(Var, Tail(cs), t, le, lv))

log_infeasible_constraints(mm, t, le, lv) ==
    InfeasibleConstraintLoop(mm.Var, active_constraints(mm), t, le, lv)

\* ------------------------------------------------ log_infeasible_bounds
\* logger.debug("Skipping VAR {} with no assigned value."): the placeholder
\* is never formatted, so the record carries no variable name
VarSkipLine == [level |-> "debug", msg |-> "Skipping VAR {} with no assigned value."]

\* 'VAR {}: {} < LB {}' and 'VAR {}: {} > UB {}'
VarBoundLine(var, msg, bound) ==
    [level |-> "info", msg |-> msg, name |-> var.name, value |-> var.value[1], bound |-> bound]

\* line 104: var.has_lb() and value(var.lb - var) >= tol
VarBelowLB(var, t) == has_lb(var) /\ var.lb[1] - var.value[1] >= t

\* line 107: var.has_ub() and value(var - var.ub) >= tol
VarAboveUB(var, t) == has_ub(var) /\ var.value[1] - var.ub[1] >= t

\* lines 100-109: the loop body for one variable
InfeasibleBoundStep(var, t) ==
    IF var.value = None
    THEN << VarSkipLine >>
    ELSE (IF VarBelowLB(var, t) THEN << VarBoundLine(var, "VAR < LB", var.lb[1]) >> ELSE << >>)
         \o (IF VarAboveUB(var, t) THEN << VarBoundLine(var, "VAR > UB", var.ub[1]) >> ELSE << >>)

\* lines 98-109: the loop over m.component_data_objects(ctype=Var, descend_into=True)
RECURSIVE InfeasibleBoundLoop(_, _)
InfeasibleBoundLoop(vs, t) ==
    IF vs = << >> THEN << >>
    ELSE InfeasibleBoundStep(Head(vs), t) \o InfeasibleBoundLoop(Tail(vs), t)

log_infeasible_bounds(mm, t) == InfeasibleBoundLoop(mm.Var, t)

\* -------------------------------------------------- log_close_to_bounds
\* '{} near LB of {}' and '{} near UB of {}'
VarNearLine(var, msg, bound) ==
    [level |-> "info", msg |-> msg, name |-> var.name, bound |-> bound]

\* '{} near UB', '{} near LB' and "Skipping CONSTR {}: missing variable value."
ConstrNearLine(constr, msg) == [level |-> "info", msg |-> msg, name |-> constr.name]

\* variant: the spread compared with < in place of <=
BoundsTooClose_strict(var, t) ==
    has_lb(var) /\ has_ub(var) /\ fabs(var.ub[1] - var.lb[1]) < 2 * t

\* lines 129-130: the bounds are too close
BoundsTooClose(var, t) ==
    has_lb(var) /\ has_ub(var) /\ fabs(var.ub[1] - var.lb[1]) <= 2 * t

\* variant: the lower-bound distance compared with 2 * tol, as the spread is
VarNearLB_wide(var, t) == has_lb(var) /\ fabs(var.lb[1] - var.value[1]) <= 2 * t

\* variant: the lower-bound distance compared with < in place of <=
VarNearLB_strict(var, t) == has_lb(var) /\ fabs(var.lb[1] - var.value[1]) < t

\* line 132: var.has_lb() and fabs(value(var.lb - var)) <= tol
VarNearLB(var, t) == has_lb(var) /\ fabs(var.lb[1] - var.value[1]) <= t

\* line 134: var.has_ub() and fabs(value(var.ub - var)) <= tol
VarNearUB(var, t) == has_ub(var) /\ fabs(var.ub[1] - var.value[1]) <= t

\* lines 132-135: if ... elif ...
VarNearLines(var, t) ==
    IF VarNearLB(var, t) THEN << VarNearLine(var, "near LB of", var.lb[1]) >>
    ELSE IF VarNearUB(var, t) THEN << VarNearLine(var, "near UB of", var.ub[1]) >>
    ELSE << >>

\* variant: the value is tested before the fixed flag
CloseVarStep_value_first(var, t) ==
    IF var.value = None THEN << VarSkipLine >>
    ELSE IF var.fixed THEN << >>
    ELSE IF BoundsTooClose(var, t) THEN << >>
    ELSE VarNearLines(var, t)

\* lines 123-135: the loop body for one variable
CloseVarStep(var, t) ==
    IF var.fixed THEN << >>
    ELSE IF var.value = None THEN << VarSkipLine >>
    ELSE IF BoundsTooClose(var, t) THEN << >>
    ELSE VarNearLines(var, t)

\* lines 121-135
RECURSIVE CloseVarLoop(_, _)
CloseVarLoop(vs, t) ==
    IF vs = << >> THEN << >>
    ELSE CloseVarStep(Head(vs), t) \o CloseVarLoop(Tail(vs), t)

\* lines 146-147: constr.has_ub() and fabs(value(body_value - constr.upper)) <= tol
ConstrNearUB(constr, bv, t) == has_ub(constr) /\ fabs(bv - constr.upper[1]) <= t

\* lines 149-150: constr.has_lb() and fabs(value(body_value - constr.lower)) <= tol
ConstrNearLB(constr, bv, t) == has_lb(constr) /\ fabs(bv - constr.lower[1]) <= t

\* variant: the lower-bound check as an elif of the upper-bound check
ConstrNearLines_elif(constr, bv, t) ==
    IF ConstrNearUB(constr, bv, t) THEN << ConstrNearLine(constr, "near UB") >>
    ELSE IF ConstrNearLB(constr, bv, t) THEN << ConstrNearLine(constr, "near LB") >>
    ELSE << >>

\* lines 146-151: two independent ifs, the upper bound first
ConstrNearLines(constr, bv, t) ==
    (IF ConstrNearUB(constr, bv, t) THEN << ConstrNearLine(constr, "near UB") >> ELSE << >>)
    \o (IF ConstrNearLB(constr, bv, t) THEN << ConstrNearLine(constr, "near LB") >> ELSE << >>)

\* lines 139-151: the loop body for one active constraint
CloseConstrStep(Var, constr, t) ==
    IF constr.equality THEN << >>
    ELSE LET body_value == value(Var, constr.body) IN
         IF body_value = None
         THEN << ConstrNearLine(constr, "Skipping CONSTR: missing variable value") >>
         ELSE ConstrNearLines(constr, body_value[1], t)

\* lines 137-151
RECURSIVE CloseConstrLoop(_, _, _)
CloseConstrLoop(Var, cs, t) ==
    IF cs = << >> THEN << >>
    ELSE CloseConstrStep(Var, Head(cs), t) \o CloseConstrLoop(Var, Tail(cs), t)

log_close_to_bounds(mm, t) ==
    CloseVarLoop(mm.Var, t) \o CloseConstrLoop(mm.Var, active_constraints(mm), t)

\* ----------------------------------------------- log_active_constraints
\* "%s active" % constr.name
RECURSIVE ActiveLoop(_)
ActiveLoop(cs) ==
    IF cs = << >> THEN << >>
    ELSE << [level |-> "info", msg |-> "active", name |-> Head(cs).name] >> \o ActiveLoop(Tail(cs))

log_active_constraints(mm) == ActiveLoop(active_constraints(mm))

\* ------------------------------------------------------------- the models
Tols == 0..MaxTol

\* a variable: optional value, optional bounds, fixed flag
VarData(name, Values, Lbs, Ubs, Fixed) ==
    [name : {name}, value : Values, lb : Lbs, ub : Ubs, fixed : Fixed]

\* a constraint: a body (the variables it sums), optional bounds, the
\* equality flag (set only when lower and upper are the same number), the
\* active flag
ConstraintData(name, Bodies, Lowers, Uppers) ==
    { c \in [name : {name}, body : Bodies, lower : Lowers, upper : Uppers,
             equality : BOOLEAN, active : BOOLEAN] :
        c.equality => (c.lower # None /\ c.upper = c.lower) }

\* models that vary the variables: x1 over every combination of value,
\* bounds and fixed flag, x2 over the combinations with bounds 0 and MaxVal
VarModels ==
    [ Var : { << x1, x2 >> :
                x1 \in VarData("x1", Opt(0..MaxVal), Opt(0..MaxVal), Opt(0..MaxVal), BOOLEAN),
                x2 \in VarData("x2", Opt(0..MaxVal), {None, Some(0)}, {None, Some(MaxVal)}, BOOLEAN) },
      Constraint : { << c1 >> :
                c1 \in { c \in ConstraintData("c1", {<< 1 >>}, {Some(1)}, {Some(MaxVal)}) :
                           ~c.equality /\ c.active } } ]

\* models that vary the constraints: c1 over every combination of body,
\* bounds and flags, c2 over the combinations with bounds 1
ConstrModels ==
    [ Var : { << x1, x2 >> :
                x1 \in VarData("x1", Opt(0..MaxCVal), {None}, {None}, {FALSE}),
                x2 \in VarData("x2", Opt(0..MaxCVal), {None}, {None}, {FALSE}) },
      Constraint : { << c1, c2 >> :
                c1 \in ConstraintData("c1", {<< 1 >>, << 1, 2 >>}, Opt(0..MaxCBound), Opt(0..MaxCBound)),
                c2 \in ConstraintData("c2", {<< 2 >>}, {None, Some(1)}, {None, Some(1)}) } ]

\* ------------------------------------------------------ the state machine
Init ==
    /\ m \in VarModels \cup ConstrModels
    /\ op = "none"
    /\ tol = 0
    /\ log_expression = FALSE
    /\ log_variables = FALSE
    /\ log = << >>
    /\ compared = << >>

LogInfeasibleConstraints ==
    \E t \in Tols, le \in BOOLEAN, lv \in BOOLEAN :
        LET r == log_infeasible_constraints(m, t, le, lv) IN
        /\ op' = "log_infeasible_constraints"
        /\ tol' = t
        /\ log_expression' = le
        /\ log_variables' = lv
        /\ log' = r.log
        /\ compared' = r.compared
        /\ UNCHANGED m

LogInfeasibleBounds ==
    \E t \in Tols :
        /\ op' = "log_infeasible_bounds"
        /\ tol' = t
        /\ log' = log_infeasible_bounds(m, t)
        /\ log_expression' = FALSE
        /\ log_variables' = FALSE
        /\ compared' = << >>
        /\ UNCHANGED m

LogCloseToBounds ==
    \E t \in Tols :
        /\ op' = "log_close_to_bounds"
        /\ tol' = t
        /\ log' = log_close_to_bounds(m, t)
        /\ log_expression' = FALSE
        /\ log_variables' = FALSE
        /\ compared' = << >>
        /\ UNCHANGED m

LogActiveConstraints ==
    /\ op' = "log_active_constraints"
    /\ tol' = 0
    /\ log' = log_active_constraints(m)
    /\ log_expression' = FALSE
    /\ log_variables' = FALSE
    /\ compared' = << >>
    /\ UNCHANGED m

Next ==
    \/ LogInfeasibleConstraints
    \/ LogInfeasibleBounds
    \/ LogCloseToBounds
    \/ LogActiveConstraints

Spec == Init /\ [][Next]_vars

\* ============================================================ properties
\* the records of the last call that carry the given name, in order
Named(name) == SelectSeq(log, LAMBDA r : "name" \in DOMAIN r /\ r.name = name)

\* what a record shows: a violation line as (left value, token, right value),
\* any other record as its message
Shown(r) ==
    IF r.msg = "CONSTR" THEN << r.lhs_value, r.operation, r.rhs_value >> ELSE << r.msg >>

ShownOf(name) == LET ls == Named(name) IN [i \in 1..Len(ls) |-> Shown(ls[i])]

Constraints == {m.Constraint[i] : i \in 1..Len(m.Constraint)}

Variables == {m.Var[i] : i \in 1..Len(m.Var)}

BodyValue(c) == value(m.Var, c.body)

Evaluates(c) == BodyValue(c) # None

\* C1: after log_infeasible_constraints, an active equality constraint whose
\* body evaluates has a violation line iff |body - bound| >= tol, and then it
\* has exactly one line, which shows body value, "=/=", bound value.
C1_EqualityLine ==
    op = "log_infeasible_constraints" =>
        \A c \in Constraints :
            (c.active /\ c.equality /\ Evaluates(c)) =>
                ShownOf(c.name) =
                    IF fabs(BodyValue(c)[1] - c.lower[1]) >= tol
                    THEN << << BodyValue(c)[1], "=/=", c.lower[1] >> >>
                    ELSE << >>

C1_Witness ==
    /\ op = "log_infeasible_constraints"
    /\ tol > 0
    /\ \E c \in Constraints :
        /\ c.active /\ c.equality /\ Evaluates(c)
        /\ BodyValue(c)[1] # c.lower[1]
        /\ fabs(BodyValue(c)[1] - c.lower[1]) >= tol
        /\ ShownOf(c.name) = << << BodyValue(c)[1], "=/=", c.lower[1] >> >>

\* the lower-bound line and the upper-bound line a constraint is due
DueLower(c) ==
    IF c.lower # None /\ c.lower[1] - BodyValue(c)[1] >= tol
    THEN << << c.lower[1], "</=", BodyValue(c)[1] >> >> ELSE << >>

DueUpper(c) ==
    IF c.upper # None /\ BodyValue(c)[1] - c.upper[1] >= tol
    THEN << << BodyValue(c)[1], "</=", c.upper[1] >> >> ELSE << >>

\* C2: after log_infeasible_constraints, an active inequality constraint whose
\* body evaluates has its lower-bound line iff a lower bound exists and
\* bound - body >= tol, and its upper-bound line iff an upper bound exists and
\* body - bound >= tol, each decided regardless of the other.
C2_IndependentSides ==
    op = "log_infeasible_constraints" =>
        \A c \in Constraints :
            (c.active /\ ~c.equality /\ Evaluates(c)) =>
                ShownOf(c.name) = DueLower(c) \o DueUpper(c)

\* both lines are logged for one constraint, with a positive tolerance
C2_Witness ==
    /\ op = "log_infeasible_constraints"
    /\ tol > 0
    /\ \E c \in Constraints :
        /\ c.active /\ ~c.equality /\ Evaluates(c)
        /\ Len(Named(c.name)) = 2
        /\ DueLower(c) # << >> /\ DueUpper(c) # << >>

\* the number of "Skipping VAR" records of the last call
SkipCount == Len(SelectSeq(log, LAMBDA r : r = VarSkipLine))

Unset == {i \in 1..Len(m.Var) : m.Var[i].value = None}

UnsetFree == {i \in Unset : ~m.Var[i].fixed}

\* C3 as stated: after log_infeasible_bounds or log_close_to_bounds, every
\* variable without a value, fixed or free, has exactly one skip line and no
\* violation or near-bound line.
C3_SkipEveryUnset ==
    op \in {"log_infeasible_bounds", "log_close_to_bounds"} =>
        /\ SkipCount = Cardinality(Unset)
        /\ \A i \in Unset : Named(m.Var[i].name) = << >>

\* C3 amended: log_infeasible_bounds logs exactly one skip line per variable
\* without a value; log_close_to_bounds logs exactly one per variable without
\* a value that is not fixed and none for a fixed one; neither logs a
\* violation or near-bound line for a variable without a value.
C3_SkipUnset ==
    /\ op = "log_infeasible_bounds" => SkipCount = Cardinality(Unset)
    /\ op = "log_close_to_bounds" => SkipCount = Cardinality(UnsetFree)
    /\ op \in {"log_infeasible_bounds", "log_close_to_bounds"} =>
            \A i \in Unset : Named(m.Var[i].name) = << >>

\* one free and one fixed variable without a value, one skip line
C3_Witness ==
    /\ op = "log_close_to_bounds"
    /\ \E i \in UnsetFree : has_lb(m.Var[i]) /\ has_ub(m.Var[i])
    /\ Unset \ UnsetFree # {}
    /\ SkipCount = 1

\* the log of log_infeasible_constraints without its missing-value records
Classified == SelectSeq(log, LAMBDA r : r.msg # "CONSTR missing variable value")

\* the model without the active constraints whose body has no value
Evaluable == [m EXCEPT !.Constraint = SelectSeq(m.Constraint, LAMBDA c : ~c.active \/ Evaluates(c))]

\* C4: after log_infeasible_constraints, an active constraint whose body has
\* no value has exactly one record, the "missing variable value" one, and
\* the other records are those of the model without such constraints.
C4_SoftSkip ==
    op = "log_infeasible_constraints" =>
        /\ \A c \in Constraints :
                (c.active /\ ~Evaluates(c)) =>
                    ShownOf(c.name) = << << "CONSTR missing variable value" >> >>
        /\ Classified = log_infeasible_constraints(Evaluable, tol, log_expression, log_variables).log

\* the first constraint has no body value, the second one is reported
C4_Witness ==
    /\ op = "log_infeasible_constraints"
    /\ Len(m.Constraint) = 2
    /\ m.Constraint[1].active /\ ~Evaluates(m.Constraint[1])
    /\ m.Constraint[2].active /\ Evaluates(m.Constraint[2])
    /\ Len(log) = 2
    /\ log[1].msg = "CONSTR missing variable value"
    /\ log[2].msg = "CONSTR"

\* C5: after log_close_to_bounds, a variable with both bounds and
\* |ub - lb| <= 2 * tol has no near-bound line, whatever its value.
C5_TooCloseSilent ==
    op = "log_close_to_bounds" =>
        \A v \in Variables :
            (v.lb # None /\ v.ub # None /\ fabs(v.ub[1] - v.lb[1]) <= 2 * tol) =>
                Named(v.name) = << >>

\* a free variable sitting exactly on a bound of a too-narrow range
C5_Witness ==
    /\ op = "log_close_to_bounds"
    /\ \E v \in Variables :
        /\ ~v.fixed /\ v.value # None /\ v.lb # None /\ v.ub # None
        /\ v.lb # v.ub
        /\ fabs(v.ub[1] - v.lb[1]) <= 2 * tol
        /\ v.value = v.lb
        /\ Named(v.name) = << >>

\* C6 as stated: log_infeasible_constraints compares an equality constraint
\* with its target only, never with its lower or upper bound as a range.
C6_EqualityOnlyTarget ==
    op = "log_infeasible_constraints" =>
        \A c \in Constraints :
            c.equality =>
                \A i \in 1..Len(compared) :
                    compared[i].name = c.name => compared[i].against = "equality"

\* the lines a non-equality constraint is due from log_close_to_bounds
DueNearUB(c) ==
    IF c.upper # None /\ fabs(BodyValue(c)[1] - c.upper[1]) <= tol
    THEN << << "near UB" >> >> ELSE << >>

DueNearLB(c) ==
    IF c.lower # None /\ fabs(BodyValue(c)[1] - c.lower[1]) <= tol
    THEN << << "near LB" >> >> ELSE << >>

\* C7: after log_close_to_bounds, an active non-equality constraint whose
\* body evaluates has "near UB" iff an upper bound exists within tol of the
\* body and "near LB" iff a lower bound exists within tol of the body, each
\* regardless of the other; equality and inactive constraints have no record.
C7_ConstraintNear ==
    op = "log_close_to_bounds" =>
        \A c \in Constraints :
            /\ (c.active /\ ~c.equality /\ Evaluates(c)) =>
                    ShownOf(c.name) = DueNearUB(c) \o DueNearLB(c)
            /\ (c.equality \/ ~c.active) => Named(c.name) = << >>

\* both near-bound lines for one constraint whose bounds differ
C7_Witness ==
    /\ op = "log_close_to_bounds"
    /\ \E c \in Constraints :
        /\ c.active /\ ~c.equality /\ Evaluates(c)
        /\ c.lower # c.upper
        /\ ShownOf(c.name) = << << "near UB" >>, << "near LB" >> >>
    /\ \E c \in Constraints : c.equality /\ c.active /\ Evaluates(c)

Checked(v) ==
    /\ ~v.fixed /\ v.value # None
    /\ ~(v.lb # None /\ v.ub # None /\ fabs(v.ub[1] - v.lb[1]) <= 2 * tol)

WithinLB(v) == v.lb # None /\ fabs(v.lb[1] - v.value[1]) <= tol

WithinUB(v) == v.ub # None /\ fabs(v.ub[1] - v.value[1]) <= tol

\* C8: after log_close_to_bounds, a free variable with a value that passes
\* the spread rule has at most one near-bound line: "near LB" iff a lower
\* bound exists within tol of the value, "near UB" iff not that and an upper
\* bound exists within tol of the value; a fixed variable has none.
C8_VariableNear ==
    op = "log_close_to_bounds" =>
        \A v \in Variables :
            /\ Checked(v) =>
                    ShownOf(v.name) =
                        IF WithinLB(v) THEN << << "near LB of" >> >>
                        ELSE IF WithinUB(v) THEN << << "near UB of" >> >>
                        ELSE << >>
            /\ v.fixed => Named(v.name) = << >>

\* a free variable on its lower bound and a fixed one on a bound
C8_Witness ==
    /\ op = "log_close_to_bounds"
    /\ \E v \in Variables :
        /\ Checked(v) /\ v.lb # None /\ v.ub # None /\ v.value = v.lb
        /\ ShownOf(v.name) = << << "near LB of" >> >>
    /\ \E v \in Variables : v.fixed /\ v.value # None /\ v.value = v.ub

Ordered(c) ==
    \/ c.lower # None /\ c.upper # None /\ c.lower[1] <= c.upper[1]
    \/ (c.lower = None) # (c.upper = None)

\* C9: after log_infeasible_constraints with tol > 0, an active constraint
\* with lb <= ub or a single bound has at most one record; a constraint has
\* two "</=" lines only if lb - ub >= 2 * tol; in every "</=" line the left
\* value exceeds the right value by at least tol.
C9_AtMostOneLine ==
    (op = "log_infeasible_constraints" /\ tol > 0) =>
        /\ \A c \in Constraints :
            /\ (c.active /\ Ordered(c)) => Len(Named(c.name)) <= 1
            /\ Len(SelectSeq(Named(c.name), LAMBDA r : r.msg = "CONSTR" /\ r.operation = "</=")) >= 2
                    => (c.lower # None /\ c.upper # None /\ c.lower[1] - c.upper[1] >= 2 * tol)
        /\ \A i \in 1..Len(log) :
                (log[i].msg = "CONSTR" /\ log[i].operation = "</=")
                    => log[i].lhs_value - log[i].rhs_value >= tol

\* a ranged constraint with lb < ub reports its one violated side
C9_Witness ==
    /\ op = "log_infeasible_constraints"
    /\ tol > 0
    /\ \E c \in Constraints :
        /\ c.active /\ ~c.equality
        /\ c.lower # None /\ c.upper # None /\ c.lower[1] < c.upper[1]
        /\ Len(Named(c.name)) = 1
        /\ Named(c.name)[1].msg = "CONSTR"
        /\ Named(c.name)[1].operation = "</="

\* C10: after log_close_to_bounds, a free variable with a value that passes
\* the spread rule has a "near UB" line iff an upper bound exists within tol
\* of the value: the lower bound's priority never suppresses it.
C10_NearUBNotSuppressed ==
    op = "log_close_to_bounds" =>
        \A v \in Variables :
            Checked(v) =>
                ((<< "near UB of" >> \in {ShownOf(v.name)[i] : i \in 1..Len(Named(v.name))})
                    <=> WithinUB(v))

\* both bounds, positive tol, near the upper bound and reported so
C10_Witness ==
    /\ op = "log_close_to_bounds"
    /\ tol > 0
    /\ \E v \in Variables :
        /\ Checked(v) /\ v.lb # None /\ v.ub # None
        /\ WithinUB(v)
        /\ ShownOf(v.name) = << << "near UB of" >> >>

====
